---- MODULE Spec2Model ----
(***************************************************************************)
(* The video analyzer: App (src/App.tsx) hosting VideoPlayer               *)
(* (src/VideoPlayer.tsx), together with the one <video> element the player *)
(* renders.  A state is the React state of both components after a commit  *)
(* and its effects, the fields of the attached media element, and the      *)
(* media events the browser has queued but not yet dispatched.  One action *)
(* is one event handler (or promise continuation) together with the        *)
(* re-render and the effects it causes.                                    *)
(***************************************************************************)
EXTENDS Integers, Sequences, FiniteSets, TLC

\* ------------------------------------------------------------------ bounds
MaxUploads == 2
MaxSeekOps == 2
MaxEvents == 2
MaxLog == 2
MaxListLen == 2
MaxCalls == 2

\* ----------------------------------------------------------- JS numbers
\* A JS number is NaN, +Infinity or a non-negative rational n/d in lowest terms.
RECURSIVE GCD(_, _)
GCD(a, b) == IF b = 0 THEN a ELSE GCD(b, a % b)

Num(n, d) == LET g == GCD(n, d) IN [k |-> "num", n |-> n \div g, d |-> d \div g]
Whole(n) == [k |-> "num", n |-> n, d |-> 1]
NaN == [k |-> "nan", n |-> 0, d |-> 1]
Infinity == [k |-> "inf", n |-> 1, d |-> 1]
Zero == Whole(0)
One == Whole(1)

IsNum(x) == x.k = "num"

\* a / b
JsDiv(a, b) ==
  IF a.k = "nan" \/ b.k = "nan" THEN NaN
  ELSE IF a.k = "inf" THEN (IF b.k = "inf" THEN NaN ELSE Infinity)
  ELSE IF b.k = "inf" THEN Zero
  ELSE IF b.n = 0 THEN (IF a.n = 0 THEN NaN ELSE Infinity)
  ELSE Num(a.n * b.d, a.d * b.n)

\* a * b
JsMul(a, b) ==
  IF a.k = "nan" \/ b.k = "nan" THEN NaN
  ELSE IF a.k = "inf" THEN (IF b.n = 0 THEN NaN ELSE Infinity)
  ELSE IF b.k = "inf" THEN (IF a.n = 0 THEN NaN ELSE Infinity)
  ELSE Num(a.n * b.n, a.d * b.d)

\* a <= b  (false when either side is NaN)
JsLeq(a, b) ==
  IF a.k = "nan" \/ b.k = "nan" THEN FALSE
  ELSE IF b.k = "inf" THEN TRUE
  ELSE IF a.k = "inf" THEN FALSE
  ELSE a.n * b.d <= b.n * a.d

JsLt(a, b) == JsLeq(a, b) /\ a # b

\* x || 0 : NaN and 0 are falsy
OrZero(x) == IF x.k = "nan" THEN Zero ELSE x

\* nullable values: <<>> is null/undefined, <<x>> is x
None == << >>
Some(x) == << x >>
IsSome(o) == Len(o) = 1
The(o) == o[1]

\* ------------------------------------------------------------ the inputs
\* Timecode entries as the model returns them: time is "m:ss".
Entries ==
  { [time |-> <<0, 3>>, text |-> "a"],
    [time |-> <<1, 10>>, text |-> "c\\'"] }

RECURSIVE SeqsUpTo(_, _)
SeqsUpTo(S, n) ==
  IF n = 0 THEN { << >> }
  ELSE LET shorter == SeqsUpTo(S, n - 1)
       IN shorter \cup { Append(s, e) : s \in { t \in shorter : Len(t) = n - 1 }, e \in S }

TimecodeLists == SeqsUpTo(Entries, MaxListLen)
\* The lists of at most one entry, for the properties that read no list order.
ShortLists == SeqsUpTo(Entries, 1)

\* utils.timeToSecs: "m:ss" -> seconds
timeToSecs(time) == time[1] * 60 + time[2]

\* Durations a media resource may report once its metadata has loaded.
Durations == { Whole(0), Whole(80) }
\* Positions normal playback passes through (timeupdate granularity).
PlayPositions == { Whole(3), Whole(70) }
\* Values the scrub control reports (step 0.000001 between 0 and 1).
ScrubValues == { Zero, Num(1, 4), Num(1, 2), One }
\* Values the volume slider reports (step 0.05 between 0 and 1).
VolumeValues == { Zero, Num(2, 5), One }

\* ------------------------------------------------------------- the state
VARIABLES
  \* App (vidUrl: 0 is null, n is the object URL of the n-th dropped file;
  \* uploads: the uploadFile calls still awaited)
  vidUrl, isLoadingVideo, videoError, timecodeList, seekOperation,
  uploads, isLoading, now, nSeekOps,
  \* VideoPlayer
  video, duration, scrubberTime, isPlaying, isScrubbing, currentData,
  volume, isMuted, playbackRate, isFullscreen,
  \* the media element held in `video` (named by the url it was created for: a
  \* url change always unmounts the element) and the browser around it
  el, events,
  \* the document: fullscreen element (TRUE when there is one), the fullscreen
  \* request the browser has not yet settled, the fullscreenchange notifications
  \* not yet dispatched, and the element that has the focus
  fullscreenElement, fsRequest, fsEvents, activeElement,
  \* history: the seek commands the player issued to media elements (how many,
  \* the last one, and how often each seek request was applied), the play() and
  \* pause() calls of togglePlay on the mounted element (how many, and the last
  \* one), and the last step
  seekLog, playLog, last

appVars == << vidUrl, isLoadingVideo, videoError, timecodeList, seekOperation,
              uploads, isLoading, now, nSeekOps >>
playerVars == << video, duration, scrubberTime, isPlaying, isScrubbing, currentData,
                 volume, isMuted, playbackRate, isFullscreen >>
docVars == << fullscreenElement, fsRequest, fsEvents, activeElement >>
envVars == << el, events, docVars >>
vars == << appVars, playerVars, envVars, seekLog, playLog, last >>

\* A freshly created <video src=url>: HAVE_NOTHING, paused, default volume and rate.
NewElement(url) ==
  [ src |-> url, currentTime |-> Zero, duration |-> NaN, paused |-> TRUE,
    volume |-> One, playbackRate |-> One, monotone |-> TRUE ]

NoElement == NewElement(0)

Init ==
  /\ vidUrl = 0
  /\ isLoadingVideo = FALSE
  /\ videoError = FALSE
  /\ timecodeList = None
  /\ seekOperation = None
  /\ uploads = 0
  /\ isLoading = FALSE
  /\ now = 0
  /\ nSeekOps = 0
  /\ video = 0
  /\ duration = Zero
  /\ scrubberTime = Zero
  /\ isPlaying = FALSE
  /\ isScrubbing = FALSE
  /\ currentData = None
  /\ volume = One
  /\ isMuted = FALSE
  /\ playbackRate = One
  /\ isFullscreen = FALSE
  /\ el = NoElement
  /\ events = << >>
  /\ fullscreenElement = FALSE
  /\ fsRequest = "none"
  /\ fsEvents = << >>
  /\ activeElement = "BODY"
  /\ playLog = [count |-> 0, lastCmd |-> "none"]
  /\ seekLog = [count |-> 0, lastCmd |-> None, applied |-> [i \in 1..MaxSeekOps |-> 0]]
  /\ last = "init"

\* ------------------------------------------------- the media element
Min(a, b) == IF JsLeq(a, b) THEN a ELSE b

\* Whether the queue of undispatched media events has room for n more.
Room(n) == Len(events) + n <= MaxEvents

Ev(id, type) == [el |-> id, type |-> type]

\* video.currentTime = t.  Before metadata has loaded (HAVE_NOTHING) the value
\* becomes the default playback start position, which currentTime reads back;
\* afterwards the element seeks to t clamped to its duration.
SetCurrentTime(e, t) ==
  [e EXCEPT !.currentTime = IF e.duration.k = "nan" THEN t ELSE Min(t, e.duration),
            !.monotone = FALSE]

\* The events a seek of element id queues: a seek on loaded media ends in timeupdate.
SeekEvents(q, e, id) ==
  IF e.duration.k = "nan" THEN q ELSE Append(q, Ev(id, "timeupdate"))

\* A seek command: the element, the target, and the seekOperation applied
\* (None for a seek issued by the scrub control).
Seek(id, t, op) == [el |-> id, time |-> t, op |-> op]

\* seekLog after one more command
Issue(log, cmd) ==
  [ count |-> log.count + 1,
    lastCmd |-> Some(cmd),
    applied |-> IF IsSome(cmd.op)
                  THEN [log.applied EXCEPT ![The(cmd.op).id] = @ + 1]
                  ELSE log.applied ]

\* ------------------------------------------------------ VideoPlayer effects
\* useEffect(..., [video, seekOperation])
SeekEffect(e, v, op) ==
  IF v # 0 /\ IsSome(op) THEN SetCurrentTime(e, The(op).time) ELSE e

SeekEffectLogByValue(log, v, op) ==
  IF v # 0 /\ IsSome(op)
       /\ ~(IsSome(log.lastCmd) /\ The(log.lastCmd).el = v
                /\ The(log.lastCmd).time = The(op).time)
    THEN Issue(log, Seek(v, The(op).time, op))
    ELSE log

\* the commands the [video, seekOperation] effect issues
SeekEffectLog(log, v, op) ==
  IF v # 0 /\ IsSome(op) THEN Issue(log, Seek(v, The(op).time, op)) ELSE log

SeekEffectEvents(q, e, v, op) ==
  IF v # 0 /\ IsSome(op) THEN SeekEvents(q, e, v) ELSE q

VolumeEffectIgnoresMute(e, v, vol, muted) ==
  IF v # 0 THEN [e EXCEPT !.volume = vol] ELSE e

\* useEffect(..., [video, volume, isMuted])
VolumeEffect(e, v, vol, muted) ==
  IF v # 0 THEN [e EXCEPT !.volume = IF muted THEN Zero ELSE vol] ELSE e

\* useEffect(..., [video, playbackRate])
RateEffect(e, v, rate) ==
  IF v # 0 THEN [e EXCEPT !.playbackRate = rate] ELSE e

ShowsPlayerWhileLoading(url, loading) == url # 0

\* The render condition of the <video> element: url && !isLoadingVideo
ShowsPlayer(url, loading) == url # 0 /\ ~loading

\* What the player renders: the player branch, or the emptyVideo branch with
\* 'Processing video...', 'Error processing video.' or the drop hint.
Display(url, loading, error) ==
  IF ShowsPlayer(url, loading) THEN "player"
  ELSE IF loading THEN "processing"
  ELSE IF error THEN "failed"
  ELSE "empty"

\* What a render shows of the source and of the fields the [url] effect resets:
\* the player branch shows the <video> of url, the overlay and caption of
\* currentData, the scrubber at scrubberTime || 0, the play icon and the rate;
\* the emptyVideo branch shows none of them.
Shown(url, loading, data, scrub, playing, rate) ==
  IF ShowsPlayer(url, loading)
    THEN [ src |-> url, caption |-> data, scrubber |-> OrZero(scrub),
           playing |-> playing, rate |-> rate ]
    ELSE [ src |-> 0, caption |-> None, scrubber |-> Zero,
           playing |-> FALSE, rate |-> One ]

\* ------------------------------------------------------------ the focus
\* The elements of the page that take the focus: the page itself, the prompt
\* textarea of App, and the controls of the player (rendered with the <video>).
FocusTargets == { "BODY", "textarea", "scrubber", "volumeSlider", "playButton" }

\* e.target.tagName
tagName(t) ==
  IF t = "textarea" THEN "TEXTAREA"
  ELSE IF t \in { "scrubber", "volumeSlider" } THEN "INPUT"
  ELSE IF t = "playButton" THEN "BUTTON"
  ELSE "BODY"

\* Whether typing into the element enters text: of the targets only the textarea
\* does; the two inputs are of type range.
AcceptsText(t) == t = "textarea"

\* The targets rendered only while vidUrl && !isLoadingVideo: the controls of the
\* player branch and the mode selector of App with its textarea.
InPlayer(t) == t \in { "textarea", "scrubber", "volumeSlider", "playButton" }

\* The keys of a keypress event: the spacebar and any other key.
Keys == { " ", "k" }

\* ------------------------------------------------------------ App actions
UploadVideoKeepsPlaying ==
  /\ vidUrl < MaxUploads
  /\ (video # 0 /\ ~el.paused) => Room(1)
  /\ vidUrl' = vidUrl + 1
  /\ isLoadingVideo' = TRUE
  /\ uploads' = uploads + 1
  /\ video' = 0
  /\ el' = NoElement
  /\ events' = IF video # 0 /\ ~el.paused THEN Append(events, Ev(video, "pause")) ELSE events
  /\ scrubberTime' = Zero
  /\ playbackRate' = One
  /\ currentData' = None
  /\ activeElement' = IF InPlayer(activeElement) THEN "BODY" ELSE activeElement
  /\ playLog' = [count |-> 0, lastCmd |-> "none"]
  /\ last' = "uploadVideo"
  /\ UNCHANGED << videoError, timecodeList, seekOperation, isLoading, now, nSeekOps,
                  duration, isPlaying, isScrubbing, volume, isMuted, isFullscreen,
                  fullscreenElement, fsRequest, fsEvents, seekLog >>

\* onDrop: setIsLoadingVideo(true); setVidUrl(URL.createObjectURL(...)); the
\* upload is then awaited.  VideoPlayer re-renders with a new url and
\* isLoadingVideo: the <video> is unmounted (ref -> setVideo(null)) and the
\* [url] effect resets scrubberTime, isPlaying, playbackRate and currentData.
\* A playing element removed from the document is paused by the browser, which
\* queues its pause event.
UploadVideo ==
  /\ vidUrl < MaxUploads
  /\ (video # 0 /\ ~el.paused) => Room(1)
  /\ vidUrl' = vidUrl + 1
  /\ isLoadingVideo' = TRUE
  /\ uploads' = uploads + 1
  /\ video' = 0
  /\ el' = NoElement
  /\ events' = IF video # 0 /\ ~el.paused THEN Append(events, Ev(video, "pause")) ELSE events
  /\ scrubberTime' = Zero
  /\ isPlaying' = FALSE
  /\ playbackRate' = One
  /\ currentData' = None
  /\ activeElement' = IF InPlayer(activeElement) THEN "BODY" ELSE activeElement
  /\ playLog' = [count |-> 0, lastCmd |-> "none"]
  /\ last' = "uploadVideo"
  /\ UNCHANGED << videoError, timecodeList, seekOperation, isLoading, now, nSeekOps,
                  duration, isScrubbing, volume, isMuted, isFullscreen,
                  fullscreenElement, fsRequest, fsEvents, seekLog >>

\* await uploadFile(file) resolved: setFile(res); setIsLoadingVideo(false).
\* If the <video> was not rendered it is now mounted (ref -> setVideo(element))
\* and the effects that depend on `video` run against the new element.
UploadResolve ==
  /\ uploads > 0
  /\ uploads' = uploads - 1
  /\ isLoadingVideo' = FALSE
  /\ IF video = 0 /\ ShowsPlayer(vidUrl, FALSE)
       THEN /\ IsSome(seekOperation) => seekLog.count < MaxLog
            /\ video' = vidUrl
            /\ el' = RateEffect(
                       VolumeEffect(
                         SeekEffect(NewElement(vidUrl), vidUrl, seekOperation),
                         vidUrl, volume, isMuted),
                       vidUrl, playbackRate)
            /\ seekLog' = SeekEffectLog(seekLog, vidUrl, seekOperation)
       ELSE UNCHANGED << video, el, seekLog >>
  /\ last' = "uploadResolve"
  /\ UNCHANGED << vidUrl, videoError, timecodeList, seekOperation, isLoading,
                  now, nSeekOps, duration, scrubberTime, isPlaying, isScrubbing,
                  currentData, volume, isMuted, playbackRate, isFullscreen,
                  events, docVars, playLog >>

\* await uploadFile(file) rejected: setVideoError(true).
UploadReject ==
  /\ uploads > 0
  /\ uploads' = uploads - 1
  /\ videoError' = TRUE
  /\ last' = "uploadReject"
  /\ UNCHANGED << vidUrl, isLoadingVideo, timecodeList, seekOperation,
                  isLoading, now, nSeekOps, playerVars, envVars, playLog, seekLog >>

\* Date.now() advances.  The clock is read only to stamp seek requests, so only
\* its advance past the last stamp is told apart.
Tick ==
  /\ IsSome(seekOperation) /\ The(seekOperation).ts = now
  /\ now' = now + 1
  /\ last' = "tick"
  /\ UNCHANGED << vidUrl, isLoadingVideo, videoError, timecodeList, seekOperation,
                  uploads, isLoading, nSeekOps, playerVars, envVars, playLog, seekLog >>

\* jumpToTimecode(time): setSeekOperation({time, ts: Date.now()}), a new object;
\* the [video, seekOperation] effect then runs.  The callers pass
\* timeToSecs(time) of an entry of the current list.
JumpToTimecode(entry) ==
  /\ IsSome(timecodeList)
  /\ \E i \in 1..Len(The(timecodeList)) : The(timecodeList)[i] = entry
  /\ nSeekOps < MaxSeekOps
  /\ video # 0 => (seekLog.count < MaxLog /\ Room(1))
  /\ LET op == Some([time |-> Whole(timeToSecs(entry.time)), ts |-> now, id |-> nSeekOps + 1])
     IN /\ seekOperation' = op
        /\ el' = SeekEffect(el, video, op)
        /\ seekLog' = SeekEffectLog(seekLog, video, op)
        /\ events' = SeekEffectEvents(events, el, video, op)
  /\ nSeekOps' = nSeekOps + 1
  /\ last' = "jumpToTimecode"
  /\ UNCHANGED << vidUrl, isLoadingVideo, videoError, timecodeList, uploads,
                  isLoading, now, playerVars, docVars, playLog >>

\* text.replaceAll("\\'", "'")
Unescape(text) == IF text = "c\\'" THEN "c'" ELSE text

\* The entries of the lists setTimecodes stores.
EntriesStored == { [x EXCEPT !.text = Unescape(x.text)] : x \in Entries }

\* setTimecodes: timecodes.map((t) => ({...t, text: t.text.replaceAll(...)}))
MapTimecodes(list) ==
  [i \in 1..Len(list) |-> [list[i] EXCEPT !.text = Unescape(list[i].text)]]

\* onModeSelect up to its await: setIsLoading(true).  The mode selector is
\* rendered only while vidUrl && !isLoadingVideo; one request is in flight at a time.
OnModeSelect ==
  /\ vidUrl # 0 /\ ~isLoadingVideo
  /\ ~isLoading
  /\ isLoading' = TRUE
  /\ last' = "onModeSelect"
  /\ UNCHANGED << vidUrl, isLoadingVideo, videoError, timecodeList, seekOperation,
                  uploads, now, nSeekOps, playerVars, envVars, playLog, seekLog >>

\* onModeSelect after generateContent resolved with a function call:
\* setTimecodes(call.args); setIsLoading(false).
GenerateDone(list) ==
  /\ isLoading
  /\ isLoading' = FALSE
  /\ timecodeList' = Some(MapTimecodes(list))
  /\ last' = "setTimecodes"
  /\ UNCHANGED << vidUrl, isLoadingVideo, videoError, seekOperation, uploads,
                  now, nSeekOps, playerVars, envVars, playLog, seekLog >>

\* ------------------------------------------------------ VideoPlayer
toReversedNot(list) == list

\* timecodeList?.toReversed()
toReversed(list) == [i \in 1..Len(list) |-> list[Len(list) + 1 - i]]

FindAtOrAfter(list, currentTime) ==
  LET hits == { i \in 1..Len(list) : JsLeq(currentTime, Whole(timeToSecs(list[i].time))) }
  IN IF hits = {} THEN None
     ELSE Some(list[CHOOSE i \in hits : \A j \in hits : i <= j])

\* Array.prototype.find with the predicate of updateTime:
\* the first t of list with timeToSecs(t.time) <= currentTime, else undefined.
FindAtOrBefore(list, currentTime) ==
  LET hits == { i \in 1..Len(list) : JsLeq(Whole(timeToSecs(list[i].time)), currentTime) }
  IN IF hits = {} THEN None
     ELSE Some(list[CHOOSE i \in hits : \A j \in hits : i <= j])

UpdateTimeScrubberUnguarded(scrubbing, old, e) == JsDiv(e.currentTime, e.duration)

\* updateTime, the scrub part: if (!isScrubbing) setScrubberTime(currentTime / duration)
UpdateTimeScrubber(scrubbing, old, e) ==
  IF ~scrubbing THEN JsDiv(e.currentTime, e.duration) ELSE old

\* updateTime, the annotation part: if (timecodeList) setCurrentData(reversed.find(...))
UpdateTimeData(list, old, e) ==
  IF IsSome(list) THEN FindAtOrBefore(toReversed(The(list)), e.currentTime) ELSE old

\* The handlers (onDurationChange, onTimeUpdate, onPlay, onPause) are props of the
\* <video> the player renders: an event reaches them only while its element is
\* the mounted one.
DeliveredToAny(ev) == TRUE

Delivered(ev) == video # 0 /\ ev.el = video

\* The browser dispatches the oldest queued media event.
Dispatch ==
  /\ events # << >>
  /\ LET ev == Head(events)
         live == Delivered(ev)
     IN /\ events' = Tail(events)
        /\ duration' = IF live /\ ev.type = "durationchange" THEN el.duration ELSE duration
        /\ scrubberTime' = IF live /\ ev.type = "timeupdate"
                             THEN UpdateTimeScrubber(isScrubbing, scrubberTime, el)
                             ELSE scrubberTime
        /\ currentData' = IF live /\ ev.type = "timeupdate"
                            THEN UpdateTimeData(timecodeList, currentData, el)
                            ELSE currentData
        /\ isPlaying' = IF live /\ ev.type = "play" THEN TRUE
                        ELSE IF live /\ ev.type = "pause" THEN FALSE
                        ELSE isPlaying
        /\ last' = IF live THEN ev.type
                   ELSE IF ev.type = "play" THEN "stale play"
                   ELSE IF ev.type = "pause" THEN "stale pause"
                   ELSE IF ev.type = "timeupdate" THEN "stale timeupdate"
                   ELSE "stale durationchange"
  /\ UNCHANGED << appVars, video, isScrubbing, volume, isMuted, playbackRate,
                  isFullscreen, el, docVars, playLog, seekLog >>

\* video.play(): a paused element starts playing and queues play; at the end of
\* the media it first seeks back to the start.
Play(e) ==
  IF ~e.paused THEN e
  ELSE IF e.duration.k = "num" /\ e.currentTime = e.duration /\ e.duration # Zero
         THEN [e EXCEPT !.paused = FALSE, !.currentTime = Zero, !.monotone = FALSE]
         ELSE [e EXCEPT !.paused = FALSE]

\* video.pause()
Pause(e) == [e EXCEPT !.paused = TRUE]

\* The element and the queue after togglePlay: pause() when isPlaying, else play().
TogglePlayElement(e, playing) == IF playing THEN Pause(e) ELSE Play(e)

TogglePlayEvents(q, e, v, playing) ==
  IF playing
    THEN (IF e.paused THEN q ELSE Append(q, Ev(v, "pause")))
    ELSE (IF e.paused THEN Append(q, Ev(v, "play")) ELSE q)

\* The call togglePlay makes on the element.
TogglePlayCommand(playing) == IF playing THEN "pause" ELSE "play"

TogglePlayOptimistic ==
  /\ video # 0
  /\ Room(1)
  /\ playLog.count < MaxCalls
  /\ el' = TogglePlayElement(el, isPlaying)
  /\ events' = TogglePlayEvents(events, el, video, isPlaying)
  /\ playLog' = [count |-> playLog.count + 1, lastCmd |-> TogglePlayCommand(isPlaying)]
  /\ isPlaying' = ~isPlaying
  /\ last' = "togglePlay"
  /\ UNCHANGED << appVars, video, duration, scrubberTime, isScrubbing, currentData,
                  volume, isMuted, playbackRate, isFullscreen, docVars, seekLog >>

\* togglePlay, from a click on the video or on the play button.
TogglePlay ==
  /\ video # 0
  /\ Room(1)
  /\ playLog.count < MaxCalls
  /\ el' = TogglePlayElement(el, isPlaying)
  /\ events' = TogglePlayEvents(events, el, video, isPlaying)
  /\ playLog' = [count |-> playLog.count + 1, lastCmd |-> TogglePlayCommand(isPlaying)]
  /\ last' = "togglePlay"
  /\ UNCHANGED << appVars, playerVars, docVars, seekLog >>

\* scrubber onPointerDown
ScrubPointerDown ==
  /\ video # 0
  /\ ~isScrubbing
  /\ isScrubbing' = TRUE
  /\ last' = "pointerDown"
  /\ UNCHANGED << appVars, video, duration, scrubberTime, isPlaying, currentData,
                  volume, isMuted, playbackRate, isFullscreen, envVars, playLog, seekLog >>

ScrubChangeDisplayOnly(value) ==
  /\ video # 0
  /\ value # OrZero(scrubberTime)
  /\ scrubberTime' = value
  /\ last' = "scrubChange"
  /\ UNCHANGED << appVars, video, duration, isPlaying, isScrubbing, currentData,
                  volume, isMuted, playbackRate, isFullscreen, envVars, playLog, seekLog >>

\* scrubber onChange: setScrubberTime(value); video.currentTime = value * duration
ScrubChange(value) ==
  /\ video # 0
  /\ value # OrZero(scrubberTime)
  /\ seekLog.count < MaxLog /\ Room(1)
  /\ scrubberTime' = value
  /\ el' = SetCurrentTime(el, JsMul(value, duration))
  /\ events' = SeekEvents(events, el, video)
  /\ seekLog' = Issue(seekLog, Seek(video, JsMul(value, duration), None))
  /\ last' = "scrubChange"
  /\ UNCHANGED << appVars, video, duration, isPlaying, isScrubbing, currentData,
                  volume, isMuted, playbackRate, isFullscreen, docVars, playLog >>

ScrubPointerUpSeeks ==
  /\ video # 0
  /\ isScrubbing
  /\ seekLog.count < MaxLog /\ Room(1)
  /\ isScrubbing' = FALSE
  /\ el' = SetCurrentTime(el, JsMul(scrubberTime, duration))
  /\ events' = SeekEvents(events, el, video)
  /\ seekLog' = Issue(seekLog, Seek(video, JsMul(scrubberTime, duration), None))
  /\ last' = "pointerUp"
  /\ UNCHANGED << appVars, video, duration, scrubberTime, isPlaying, currentData,
                  volume, isMuted, playbackRate, isFullscreen, docVars, playLog >>

\* scrubber onPointerUp
ScrubPointerUp ==
  /\ video # 0
  /\ isScrubbing
  /\ isScrubbing' = FALSE
  /\ last' = "pointerUp"
  /\ UNCHANGED << appVars, video, duration, scrubberTime, isPlaying, currentData,
                  volume, isMuted, playbackRate, isFullscreen, envVars, playLog, seekLog >>

ToggleMuteZeroesVolume ==
  /\ video # 0
  /\ isMuted' = ~isMuted
  /\ volume' = IF isMuted THEN volume ELSE Zero
  /\ el' = VolumeEffect(el, video, volume', ~isMuted)
  /\ last' = "toggleMute"
  /\ UNCHANGED << appVars, video, duration, scrubberTime, isPlaying, isScrubbing,
                  currentData, playbackRate, isFullscreen,
                  events, docVars, playLog, seekLog >>

\* toggleMute, then the [video, volume, isMuted] effect
ToggleMute ==
  /\ video # 0
  /\ isMuted' = ~isMuted
  /\ el' = VolumeEffect(el, video, volume, ~isMuted)
  /\ last' = "toggleMute"
  /\ UNCHANGED << appVars, video, duration, scrubberTime, isPlaying, isScrubbing,
                  currentData, volume, playbackRate, isFullscreen,
                  events, docVars, playLog, seekLog >>

VolumeChangeKeepsMute(value) ==
  /\ video # 0
  /\ value # (IF isMuted THEN Zero ELSE volume)
  /\ volume' = value
  /\ isMuted' = isMuted
  /\ el' = VolumeEffect(el, video, value, isMuted)
  /\ last' = IF isMuted THEN "volumeChange (muted)" ELSE "volumeChange"
  /\ UNCHANGED << appVars, video, duration, scrubberTime, isPlaying, isScrubbing,
                  currentData, playbackRate, isFullscreen,
                  events, docVars, playLog, seekLog >>

VolumeChangeOneWay(value) ==
  /\ video # 0
  /\ value # (IF isMuted THEN Zero ELSE volume)
  /\ volume' = value
  /\ isMuted' = (isMuted \/ value = Zero)
  /\ el' = VolumeEffect(el, video, value, isMuted \/ value = Zero)
  /\ last' = IF isMuted THEN "volumeChange (muted)" ELSE "volumeChange"
  /\ UNCHANGED << appVars, video, duration, scrubberTime, isPlaying, isScrubbing,
                  currentData, playbackRate, isFullscreen,
                  events, docVars, playLog, seekLog >>

\* volumeSlider onChange: setVolume(value); setIsMuted(value === 0); then the effect.
\* The slider shows isMuted ? 0 : volume and reports a change of that value.
VolumeChange(value) ==
  /\ video # 0
  /\ value # (IF isMuted THEN Zero ELSE volume)
  /\ volume' = value
  /\ isMuted' = (value = Zero)
  /\ el' = VolumeEffect(el, video, value, value = Zero)
  /\ last' = IF isMuted THEN "volumeChange (muted)" ELSE "volumeChange"
  /\ UNCHANGED << appVars, video, duration, scrubberTime, isPlaying, isScrubbing,
                  currentData, playbackRate, isFullscreen,
                  events, docVars, playLog, seekLog >>

\* const rates = [0.5, 1, 1.5, 2]
rates == << Num(1, 2), One, Num(3, 2), Whole(2) >>

\* rates.indexOf(x), 0-based, -1 when absent
indexOf(list, x) ==
  IF \E i \in 1..Len(list) : list[i] = x
    THEN (CHOOSE i \in 1..Len(list) : list[i] = x /\ \A j \in 1..(i - 1) : list[j] # x) - 1
    ELSE -1

NextRateClamped(rate) ==
  rates[IF indexOf(rates, rate) + 1 < Len(rates) THEN indexOf(rates, rate) + 2 ELSE Len(rates)]

\* cyclePlaybackRate, then the [video, playbackRate] effect
NextRate(rate) == rates[((indexOf(rates, rate) + 1) % Len(rates)) + 1]

CyclePlaybackRate ==
  /\ video # 0
  /\ playbackRate' = NextRate(playbackRate)
  /\ el' = RateEffect(el, video, NextRate(playbackRate))
  /\ last' = "cyclePlaybackRate"
  /\ UNCHANGED << appVars, video, duration, scrubberTime, isPlaying, isScrubbing,
                  currentData, volume, isMuted, isFullscreen,
                  events, docVars, playLog, seekLog >>

\* The user moves the focus (a click or the Tab key).
Focus(t) ==
  /\ t # activeElement
  /\ InPlayer(t) => video # 0
  /\ activeElement' = t
  /\ last' = "focus"
  /\ UNCHANGED << appVars, playerVars, el, events, fullscreenElement, fsRequest,
                  fsEvents, playLog, seekLog >>

\* onKeyPress: whether the listener calls togglePlay
KeyToggles(target, key) ==
  tagName(target) # "INPUT" /\ tagName(target) # "TEXTAREA" /\ key = " "

\* The keypress listener of window, registered whatever is rendered; the target
\* of the event is the element that has the focus.  togglePlay dereferences
\* `video`: with no element mounted video.play() / video.pause() throws a
\* TypeError out of the listener.
KeyPress(key) ==
  /\ IF KeyToggles(activeElement, key)
       THEN IF video = 0
              THEN /\ last' = "space: TypeError"
                   /\ UNCHANGED << el, events, playLog >>
              ELSE /\ Room(1)
                   /\ playLog.count < MaxCalls
                   /\ el' = TogglePlayElement(el, isPlaying)
                   /\ events' = TogglePlayEvents(events, el, video, isPlaying)
                   /\ playLog' = [count |-> playLog.count + 1,
                                  lastCmd |-> TogglePlayCommand(isPlaying)]
                   /\ last' = "space: togglePlay"
       ELSE /\ last' = IF key = " " THEN "space: ignored" ELSE "keypress: ignored"
            /\ UNCHANGED << el, events, playLog >>
  /\ UNCHANGED << appVars, playerVars, docVars, seekLog >>

ToggleFullscreenOptimistic ==
  /\ video # 0
  /\ fsRequest' = IF ~fullscreenElement THEN "enter" ELSE "exit"
  /\ isFullscreen' = ~fullscreenElement
  /\ last' = "toggleFullscreen"
  /\ UNCHANGED << appVars, video, duration, scrubberTime, isPlaying, isScrubbing,
                  currentData, volume, isMuted, playbackRate, el, events,
                  fullscreenElement, fsEvents, activeElement, playLog, seekLog >>

\* toggleFullscreen: requestFullscreen() on the player when the document has no
\* fullscreen element, else document.exitFullscreen(); the browser settles the
\* request later.
ToggleFullscreen ==
  /\ video # 0
  /\ fsRequest' = IF ~fullscreenElement THEN "enter" ELSE "exit"
  /\ last' = "toggleFullscreen"
  /\ UNCHANGED << appVars, playerVars, el, events, fullscreenElement, fsEvents,
                  activeElement, playLog, seekLog >>

\* The browser grants requestFullscreen: the player becomes the fullscreen element
\* and fullscreenchange is queued.
FullscreenEntered ==
  /\ fsRequest = "enter" /\ ~fullscreenElement
  /\ Len(fsEvents) < MaxEvents
  /\ fullscreenElement' = TRUE
  /\ fsEvents' = Append(fsEvents, "entered")
  /\ fsRequest' = "none"
  /\ last' = "fullscreen entered"
  /\ UNCHANGED << appVars, playerVars, el, events, activeElement, playLog, seekLog >>

\* The browser refuses requestFullscreen (fullscreenerror), or has nothing to exit.
FullscreenRefused ==
  /\ \/ fsRequest = "enter"
     \/ fsRequest = "exit" /\ ~fullscreenElement
  /\ fsRequest' = "none"
  /\ last' = "fullscreen refused"
  /\ UNCHANGED << appVars, playerVars, el, events, fullscreenElement, fsEvents,
                  activeElement, playLog, seekLog >>

\* The browser carries out document.exitFullscreen().
FullscreenExited ==
  /\ fsRequest = "exit" /\ fullscreenElement
  /\ Len(fsEvents) < MaxEvents
  /\ fullscreenElement' = FALSE
  /\ fsEvents' = Append(fsEvents, "exit requested")
  /\ fsRequest' = "none"
  /\ last' = "fullscreen exited"
  /\ UNCHANGED << appVars, playerVars, el, events, activeElement, playLog, seekLog >>

\* The system leaves fullscreen on its own (the Esc key).
SystemExitFullscreen ==
  /\ fullscreenElement
  /\ Len(fsEvents) < MaxEvents
  /\ fullscreenElement' = FALSE
  /\ fsEvents' = Append(fsEvents, "system exit")
  /\ last' = "Esc"
  /\ UNCHANGED << appVars, playerVars, el, events, fsRequest, activeElement,
                  playLog, seekLog >>

\* !!document.fullscreenElement
ReadFullscreen(old, element) == element

\* onFullscreenChange, the listener of document registered on mount: the browser
\* dispatches the oldest queued fullscreenchange.
FullscreenChange ==
  /\ fsEvents # << >>
  /\ fsEvents' = Tail(fsEvents)
  /\ isFullscreen' = ReadFullscreen(isFullscreen, fullscreenElement)
  /\ last' = IF Head(fsEvents) = "entered" THEN "fullscreenchange (entered)"
             ELSE IF Head(fsEvents) = "exit requested" THEN "fullscreenchange (exit requested)"
             ELSE "fullscreenchange (system exit)"
  /\ UNCHANGED << appVars, video, duration, scrubberTime, isPlaying, isScrubbing,
                  currentData, volume, isMuted, playbackRate, el, events,
                  fullscreenElement, fsRequest, activeElement, playLog, seekLog >>

\* ------------------------------------------------------------ the browser
\* The resource's metadata loads: the duration becomes known (durationchange) and
\* the default playback start position is clamped to it.
LoadedMetadata(d) ==
  /\ video # 0
  /\ el.duration.k = "nan"
  /\ Room(1)
  /\ el' = [el EXCEPT !.duration = d, !.currentTime = Min(el.currentTime, d)]
  /\ events' = Append(events, Ev(video, "durationchange"))
  /\ last' = "loadedMetadata"
  /\ UNCHANGED << appVars, playerVars, docVars, playLog, seekLog >>

\* Normal playback carries the position forward to p and queues timeupdate.
Playback(p) ==
  /\ video # 0
  /\ ~el.paused
  /\ el.duration.k = "num"
  /\ JsLt(el.currentTime, p) /\ JsLeq(p, el.duration)
  /\ Room(1)
  /\ el' = [el EXCEPT !.currentTime = p]
  /\ events' = Append(events, Ev(video, "timeupdate"))
  /\ last' = "playback"
  /\ UNCHANGED << appVars, playerVars, docVars, playLog, seekLog >>

\* Playback reaches the end of the media: the element pauses, queueing
\* timeupdate and pause.
Ended ==
  /\ video # 0
  /\ ~el.paused
  /\ el.duration.k = "num" /\ el.currentTime = el.duration
  /\ Room(2)
  /\ el' = [el EXCEPT !.paused = TRUE]
  /\ events' = events \o << Ev(video, "timeupdate"), Ev(video, "pause") >>
  /\ last' = "ended"
  /\ UNCHANGED << appVars, playerVars, docVars, playLog, seekLog >>

\* onModeSelect after generateContent resolved without a function call.
GenerateNoCall ==
  /\ isLoading
  /\ isLoading' = FALSE
  /\ last' = "generateNoCall"
  /\ UNCHANGED << vidUrl, isLoadingVideo, videoError, timecodeList, seekOperation,
                  uploads, now, nSeekOps, playerVars, envVars, playLog, seekLog >>

Next ==
  \/ UploadVideo
  \/ UploadResolve
  \/ UploadReject
  \/ Tick
  \/ \E e \in EntriesStored : JumpToTimecode(e)
  \/ OnModeSelect
  \/ \E l \in TimecodeLists : GenerateDone(l)
  \/ GenerateNoCall
  \/ Dispatch
  \/ TogglePlay
  \/ ScrubPointerDown
  \/ \E v \in ScrubValues : ScrubChange(v)
  \/ ScrubPointerUp
  \/ ToggleMute
  \/ \E v \in VolumeValues : VolumeChange(v)
  \/ CyclePlaybackRate
  \/ \E d \in Durations : LoadedMetadata(d)
  \/ \E p \in PlayPositions : Playback(p)
  \/ Ended
  \/ \E t \in FocusTargets : Focus(t)
  \/ \E k \in Keys : KeyPress(k)
  \/ ToggleFullscreen
  \/ FullscreenEntered
  \/ FullscreenRefused
  \/ FullscreenExited
  \/ SystemExitFullscreen
  \/ FullscreenChange

Spec == Init /\ [][Next]_vars

\* -------------------------------------------- the program, by concern
\* Every behaviour of one of the specifications below is a behaviour of Spec: each
\* one exercises the handlers that write the state its properties read, and
\* leaves the other controls untouched.

\* The seek broker: host seek requests against mounting and unmounting elements.
NextSeek ==
  \/ UploadVideo
  \/ UploadResolve
  \/ Tick
  \/ \E e \in EntriesStored : JumpToTimecode(e)
  \/ OnModeSelect
  \/ \E l \in ShortLists : GenerateDone(l)
  \/ \E d \in Durations : LoadedMetadata(d)
  \/ Dispatch

SpecSeek == Init /\ [][NextSeek]_vars

\* Source changes against playback and the events of the replaced element.
NextSource ==
  \/ UploadVideo
  \/ UploadResolve
  \/ UploadReject
  \/ OnModeSelect
  \/ \E l \in ShortLists : GenerateDone(l)
  \/ \E d \in Durations : LoadedMetadata(d)
  \/ TogglePlay
  \/ \E p \in PlayPositions : Playback(p)
  \/ Ended
  \/ CyclePlaybackRate
  \/ Dispatch

SpecSource == Init /\ [][NextSource]_vars

\* The scrub control against the clock.
NextScrub ==
  \/ UploadVideo
  \/ UploadResolve
  \/ \E d \in Durations : LoadedMetadata(d)
  \/ TogglePlay
  \/ \E p \in PlayPositions : Playback(p)
  \/ Ended
  \/ ScrubPointerDown
  \/ \E v \in ScrubValues : ScrubChange(v)
  \/ ScrubPointerUp
  \/ Dispatch

SpecScrub == Init /\ [][NextScrub]_vars

\* The annotation index: lists against seeks in both directions (the scrub
\* control seeks backward as well as forward).
NextAnnotation ==
  \/ UploadVideo
  \/ UploadResolve
  \/ OnModeSelect
  \/ \E l \in TimecodeLists : GenerateDone(l)
  \/ \E d \in Durations : LoadedMetadata(d)
  \/ \E v \in ScrubValues : ScrubChange(v)
  \/ Dispatch

SpecAnnotation == Init /\ [][NextAnnotation]_vars

\* The annotation index: lists against normal playback, with one backward seek
\* of the scrub control to tell seeking from playing.
NextPlayback ==
  \/ UploadVideo
  \/ UploadResolve
  \/ OnModeSelect
  \/ \E l \in TimecodeLists : GenerateDone(l)
  \/ \E d \in Durations : LoadedMetadata(d)
  \/ TogglePlay
  \/ \E p \in PlayPositions : Playback(p)
  \/ Ended
  \/ ScrubChange(Zero)
  \/ Dispatch

SpecPlayback == Init /\ [][NextPlayback]_vars

\* Volume and mute against mounting and unmounting elements.
NextVolume ==
  \/ UploadVideo
  \/ UploadResolve
  \/ UploadReject
  \/ \E d \in Durations : LoadedMetadata(d)
  \/ TogglePlay
  \/ ToggleMute
  \/ \E v \in VolumeValues : VolumeChange(v)
  \/ Dispatch

SpecVolume == Init /\ [][NextVolume]_vars

\* The keyboard: the spacebar against the focus and mounting elements.
NextKeys ==
  \/ UploadVideo
  \/ UploadResolve
  \/ UploadReject
  \/ \E d \in Durations : LoadedMetadata(d)
  \/ \E t \in FocusTargets : Focus(t)
  \/ \E k \in Keys : KeyPress(k)
  \/ TogglePlay
  \/ Dispatch

SpecKeys == Init /\ [][NextKeys]_vars

\* Fullscreen: the toggle, the browser and the system against the listener.
NextFullscreen ==
  \/ UploadVideo
  \/ UploadResolve
  \/ ToggleFullscreen
  \/ FullscreenEntered
  \/ FullscreenRefused
  \/ FullscreenExited
  \/ SystemExitFullscreen
  \/ FullscreenChange

SpecFullscreen == Init /\ [][NextFullscreen]_vars

\* ------------------------------------------------------------ properties
\* C1: each seek request is applied to a media element at most once, whatever
\* elements are mounted and unmounted after it: no request is counted twice among
\* the seek commands issued.
C1_SeekAppliedAtMostOnce ==
  \A i \in 1..MaxSeekOps : seekLog.applied[i] <= 1

\* C2: a seek request that follows one with the same time but another token, made
\* while a media element is attached, issues its own seek command seek(time).
C2_SameTimeSeeksAgain ==
  [][ ( /\ nSeekOps' = nSeekOps + 1
        /\ video # 0
        /\ IsSome(seekOperation)
        /\ The(seekOperation').time = The(seekOperation).time
        /\ The(seekOperation').ts # The(seekOperation).ts )
      => ( /\ seekLog'.count = seekLog.count + 1
           /\ seekLog'.lastCmd = Some(Seek(video, The(seekOperation).time, seekOperation'))
           /\ el'.currentTime = (IF el.duration.k = "nan"
                                   THEN The(seekOperation).time
                                   ELSE Min(The(seekOperation).time, el.duration)) )
    ]_vars

\* C2 witness: two requests with different tokens and the same time have each been
\* applied once to the element that is attached.
C2_Witness ==
  /\ last = "jumpToTimecode"
  /\ video # 0
  /\ nSeekOps = 2
  /\ now = 1 /\ The(seekOperation).ts = 1
  /\ seekLog.count = 2
  /\ seekLog.applied[1] = 1 /\ seekLog.applied[2] = 1
  /\ seekLog.lastCmd = Some(Seek(video, Whole(3), seekOperation))
  /\ el.currentTime = Whole(3)

\* The defaults the [url] effect sets.
AtDefaults ==
  /\ isPlaying = FALSE
  /\ scrubberTime = Zero
  /\ playbackRate = One
  /\ currentData = None

\* C3: a change of url leaves isPlaying, the scrub fraction, playbackRate and the
\* active annotation at their defaults, and the dispatch of an event queued by
\* the element of a previous url changes nothing of the player's state.
C3_ResetSurvivesOldEvents ==
  [][ /\ (vidUrl' # vidUrl) => AtDefaults'
      /\ (events # << >> /\ events' = Tail(events) /\ Head(events).el # video)
           => UNCHANGED playerVars
    ]_vars

\* C3 witness: after a second url, a play event of the first url's element has
\* been dispatched and the player is at its defaults.
C3_Witness ==
  /\ last = "stale play"
  /\ vidUrl = 2
  /\ AtDefaults

\* C4: while isScrubbing is true, the dispatch of a media event (onTimeUpdate
\* among them) leaves the displayed scrub fraction as it was.
C4_TimeUpdateKeepsScrubFraction ==
  [][ (isScrubbing /\ events # << >> /\ events' = Tail(events))
        => scrubberTime' = scrubberTime
    ]_vars

\* C4 witness: a timeupdate was handled during a drag, and the fraction shown is
\* not the one the clock would give.
C4_Witness ==
  /\ last = "timeupdate"
  /\ isScrubbing
  /\ IsNum(JsDiv(el.currentTime, el.duration))
  /\ scrubberTime # JsDiv(el.currentTime, el.duration)

\* C5 as claimed: a drag move updates only the displayed fraction and issues no
\* seek command.
C5_DragMoveIssuesNoSeek ==
  [][ (last' = "scrubChange" /\ isScrubbing) => (seekLog' = seekLog /\ el' = el) ]_vars

\* C5 as amended: a drag move sets the displayed fraction to the value of the
\* control and issues one seek command, to value * duration; it changes nothing
\* else of the player's state.
C5_DragMoveSeeks ==
  [][ (last' = "scrubChange" /\ isScrubbing)
        => ( /\ scrubberTime' \in ScrubValues
             /\ seekLog'.count = seekLog.count + 1
             /\ seekLog'.lastCmd = Some(Seek(video, JsMul(scrubberTime', duration), None))
             /\ UNCHANGED << video, duration, isPlaying, isScrubbing, currentData,
                             volume, isMuted, playbackRate, isFullscreen >> )
    ]_vars

\* C5 witness: the second move of the scrub control, made during a drag over loaded
\* media, has issued the second seek, to fraction * duration.
C5_Witness ==
  /\ last = "scrubChange"
  /\ isScrubbing
  /\ duration = Whole(80)
  /\ seekLog.count = 2
  /\ seekLog.lastCmd = Some(Seek(video, JsMul(scrubberTime, duration), None))
  /\ scrubberTime = Num(1, 4)

\* C6 as claimed: drag end clears isScrubbing and issues exactly one seek command,
\* to fraction * duration for the fraction displayed.
C6_DragEndSeeksOnce ==
  [][ (last' = "pointerUp")
        => ( /\ isScrubbing' = FALSE
             /\ seekLog'.count = seekLog.count + 1
             /\ seekLog'.lastCmd = Some(Seek(video, JsMul(scrubberTime, duration), None)) )
    ]_vars

\* C6 as amended: drag end clears isScrubbing and issues no seek command; during a
\* drag the seek commands are those of its moves, one for each move.
C6_DragEndOnlyClearsFlag ==
  [][ /\ (last' = "pointerUp")
           => ( /\ isScrubbing /\ ~isScrubbing'
                /\ seekLog' = seekLog
                /\ el' = el
                /\ scrubberTime' = scrubberTime )
      /\ (isScrubbing /\ seekLog' # seekLog)
           => (last' = "scrubChange" /\ seekLog'.count = seekLog.count + 1)
    ]_vars

\* C6 witness: a drag with moves has ended; the seeks issued are those of the moves.
C6_Witness ==
  /\ last = "pointerUp"
  /\ ~isScrubbing
  /\ seekLog.count = 2
  /\ duration = Whole(80)
  /\ seekLog.lastCmd = Some(Seek(video, JsMul(scrubberTime, duration), None))

\* C7: the stored scrub fraction is a defined value in [0,1], and it is 0 after a
\* time update of a media element whose duration is 0 or not yet known.
C7_ScrubFractionDefined ==
  /\ IsNum(scrubberTime)
  /\ JsLeq(Zero, scrubberTime) /\ JsLeq(scrubberTime, One)
  /\ (last = "timeupdate" /\ ~isScrubbing /\ el.duration \in {Zero, NaN})
       => scrubberTime = Zero

\* The host's list is ordered ascending by time.
Ascending(list) ==
  \A i, j \in 1..Len(list) :
    i < j => timeToSecs(list[i].time) <= timeToSecs(list[j].time)

\* C8: for an ascending list, the annotation a time update selects is an entry
\* with the greatest time <= currentTime, and none when every entry is later;
\* whatever was selected or sought before.
C8_SelectsLatestAtOrBefore ==
  (last = "timeupdate" /\ IsSome(timecodeList) /\ Ascending(The(timecodeList)))
    => LET list == The(timecodeList)
           eligible == { i \in 1..Len(list) :
                           JsLeq(Whole(timeToSecs(list[i].time)), el.currentTime) }
       IN IF eligible = {}
            THEN currentData = None
            ELSE /\ IsSome(currentData)
                 /\ \E i \in eligible :
                      /\ list[i] = The(currentData)
                      /\ \A j \in eligible :
                           timeToSecs(list[j].time) <= timeToSecs(list[i].time)

\* C8 witness: with the list 0:03, 1:10 a time update after a seek back to 0:20
\* has selected the older entry.
C8_Witness ==
  /\ last = "timeupdate"
  /\ timecodeList = Some(<< [time |-> <<0, 3>>, text |-> "a"],
                            [time |-> <<1, 10>>, text |-> "c'"] >>)
  /\ seekLog.count = 2
  /\ el.currentTime = Whole(20)
  /\ currentData = Some([time |-> <<0, 3>>, text |-> "a"])

\* C9: while an element's position has only moved by normal playback, the time of
\* the selected annotation, if there is one, is at most the element's current time.
C9_SelectedNotAfterCurrentTime ==
  (video # 0 /\ el.monotone /\ IsSome(currentData))
    => JsLeq(Whole(timeToSecs(The(currentData).time)), el.currentTime)

\* C9 witness: playback has reached 1:10 without a seek and selected that entry.
C9_Witness ==
  /\ last = "timeupdate"
  /\ video # 0 /\ el.monotone
  /\ ~el.paused
  /\ el.currentTime = Whole(70)
  /\ currentData = Some([time |-> <<1, 10>>, text |-> "c'"])

\* C10: the mute toggle flips isMuted and never changes the stored volume, so mute
\* followed by unmute leaves the volume as it was and isMuted false.
C10_MuteToggleKeepsVolume ==
  [][ (last' = "toggleMute") => (volume' = volume /\ isMuted' = ~isMuted) ]_vars

\* C10 witness: volume 0.4 after unmuting (isMuted is set while the volume is above
\* 0 only by the toggle), and the element is back at 0.4.
C10_Witness ==
  /\ last = "toggleMute"
  /\ ~isMuted
  /\ volume = Num(2, 5)
  /\ el.volume = Num(2, 5)

\* The ordered set of rates and the successor of each, wrapping from 2 to 0.5.
RateSet == { Num(1, 2), One, Num(3, 2), Whole(2) }
RateAfter(r) ==
  IF r = Num(1, 2) THEN One
  ELSE IF r = One THEN Num(3, 2)
  ELSE IF r = Num(3, 2) THEN Whole(2)
  ELSE Num(1, 2)

\* C11: playbackRate is always one of 0.5, 1, 1.5, 2; cyclePlaybackRate advances it
\* to the next of them, wrapping from 2 to 0.5, and four applications return to
\* the rate they started from.
C11_CycleAdvancesRate ==
  [][ /\ playbackRate \in RateSet /\ playbackRate' \in RateSet
      /\ (last' = "cyclePlaybackRate")
           => ( /\ playbackRate' = RateAfter(playbackRate)
                /\ el'.playbackRate = playbackRate'
                /\ NextRate(NextRate(NextRate(NextRate(playbackRate)))) = playbackRate )
    ]_vars

\* C11 witness: three cycles from the default 1 have wrapped from 2 to 0.5.
C11_Witness ==
  /\ last = "cyclePlaybackRate"
  /\ playbackRate = Num(1, 2)
  /\ el.playbackRate = Num(1, 2)

\* C12: a toggle-play request calls play() when isPlaying is false and pause() when
\* it is true and leaves isPlaying as it was; isPlaying becomes true only in the
\* onPlay handler and false only in the onPause handler or the reset of a source
\* change.
C12_ToggleIssuesCommandOnly ==
  [][ /\ (last' \in { "togglePlay", "space: togglePlay" })
           => ( /\ isPlaying' = isPlaying
                /\ playLog'.count = playLog.count + 1
                /\ playLog'.lastCmd = (IF isPlaying THEN "pause" ELSE "play")
                /\ el'.paused = isPlaying )
      /\ (~isPlaying /\ isPlaying') => last' = "play"
      /\ (isPlaying /\ ~isPlaying') => last' \in { "pause", "uploadVideo" }
    ]_vars

\* C12 witness: two toggle requests on one element, both before its play event
\* was dispatched, have both called play().
C12_Witness ==
  /\ last \in { "togglePlay", "space: togglePlay" }
  /\ video # 0
  /\ playLog = [count |-> 2, lastCmd |-> "play"]
  /\ ~isPlaying
  /\ ~el.paused
  /\ events = << Ev(video, "play") >>

\* C13: setting the volume to 0 through the volume control sets isMuted to true in
\* the same transition.
C13_ZeroVolumeMutes ==
  [][ (last' \in { "volumeChange", "volumeChange (muted)" } /\ volume' = Zero)
        => (isMuted' /\ el'.volume = Zero) ]_vars

\* C13 witness: the volume control was moved to 0 from 0.4.
C13_Witness ==
  /\ last = "volumeChange"
  /\ volume = Zero
  /\ isMuted
  /\ el.volume = Zero

\* C14 as claimed: setting the volume above 0 through the volume control while
\* isMuted is true leaves isMuted true.
C14_RaisingVolumeStaysMuted ==
  [][ (last' = "volumeChange (muted)" /\ volume' # Zero) => isMuted' ]_vars

\* C14 as amended: setting the volume above 0 through the volume control while
\* isMuted is true sets isMuted to false, and the element plays at that volume.
C14_RaisingVolumeUnmutes ==
  [][ (last' = "volumeChange (muted)" /\ volume' # Zero)
        => (~isMuted' /\ el'.volume = volume') ]_vars

\* C14 witness: the volume control was moved to 0.4 while isMuted was true.
C14_Witness ==
  /\ last = "volumeChange (muted)"
  /\ volume = Num(2, 5)
  /\ ~isMuted
  /\ el.volume = Num(2, 5)

\* C15: isFullscreen changes only when a fullscreenchange notification is handled,
\* and then it equals whether the document has a fullscreen element; the toggle
\* only leaves a request with the browser, and after the notification of an exit
\* the system made on its own isFullscreen is false.
C15_FullscreenFollowsNotification ==
  [][ /\ (isFullscreen' # isFullscreen)
           => (fsEvents # << >> /\ fsEvents' = Tail(fsEvents))
      /\ (fsEvents # << >> /\ fsEvents' = Tail(fsEvents))
           => (isFullscreen' = fullscreenElement /\ fullscreenElement' = fullscreenElement)
      /\ (last' = "toggleFullscreen")
           => ( /\ isFullscreen' = isFullscreen
                /\ fullscreenElement' = fullscreenElement
                /\ fsRequest' = (IF fullscreenElement THEN "exit" ELSE "enter") )
      /\ (last' = "fullscreenchange (system exit)" /\ ~fullscreenElement)
           => ~isFullscreen'
    ]_vars

\* C15 witness: fullscreen was entered and shown, the system then left it without
\* a request of the player pending or made, and the notification was handled.
C15_Witness ==
  /\ last = "fullscreenchange (system exit)"
  /\ ~isFullscreen
  /\ ~fullscreenElement
  /\ fsRequest = "none"
  /\ fsEvents = << >>

\* C16: a spacebar keypress calls togglePlay exactly when the target of the event
\* does not accept text input.
C16_SpaceTogglesUnlessTextTarget ==
  /\ (last = "space: ignored") => AcceptsText(activeElement)
  /\ (last \in { "space: togglePlay", "space: TypeError" }) => ~AcceptsText(activeElement)

\* C17: whenever videoError is true the player shows the failed display.
C17_ErrorShowsFailed ==
  videoError => Display(vidUrl, isLoadingVideo, videoError) = "failed"

\* C18: a spacebar keypress while no media element is attached raises no error and
\* leaves the state of the player as it was.
C18_CommandWithoutElementIsNoOp ==
  [][ ( /\ video = 0
        /\ last' \in { "space: togglePlay", "space: TypeError", "space: ignored" } )
        => (last' # "space: TypeError" /\ UNCHANGED playerVars) ]_vars

\* C19: while no element is mounted, or the metadata of the mounted element has
\* not loaded (so that no durationchange of it was handled), duration is 0.
C19_DurationResetOnSourceChange ==
  (video = 0 \/ el.duration.k = "nan") => duration = Zero

\* Nothing of a previous source is shown: no caption or overlay, the scrubber at 0,
\* the play icon, the rate 1.
ShowsDefaults(view) ==
  /\ view.caption = None
  /\ view.scrubber = Zero
  /\ ~view.playing
  /\ view.rate = One

C21_ElementVolumeFollowsState ==
  /\ IsNum(volume) /\ JsLeq(Zero, volume) /\ JsLeq(volume, One)
  /\ (video # 0) => el.volume = (IF isMuted THEN Zero ELSE volume)

\* C21 witness: the volume was set to 0.4 and muted on the first element; the
\* element mounted for the second url plays at 0 with 0.4 still stored.
C21_Witness ==
  /\ last = "uploadResolve"
  /\ video = 2
  /\ isMuted
  /\ volume = Num(2, 5)
  /\ el.volume = Zero

\* C22: the stored active annotation is none or an entry of the timecode list the
\* host currently supplies.
C22_SelectedIsInCurrentList ==
  IsSome(currentData)
    => ( /\ IsSome(timecodeList)
         /\ \E i \in 1..Len(The(timecodeList)) : The(timecodeList)[i] = The(currentData) )

====
